---- MODULE Spec2Model ----
(***************************************************************************)
(* Model of book/src/configuration/cookbook/custom-clock.py: a loop that   *)
(* draws the current local time on a fresh cairo surface, writes it as a   *)
(* PNG to a fixed path, prints the path and the time, flushes and sleeps.  *)
(* The program is one control flow (pc); the environment is the wall       *)
(* clock (Tick), faults raised by a statement (Fault), an operator's       *)
(* interruption (Interrupt) and an external reader of the file (Read).     *)
(***************************************************************************)
EXTENDS Integers, Sequences, FiniteSets, TLC

\* ---- bounds of the model ----
MaxIter == 3
MaxTime == 5
TicksPerSec == 2
PngChunks == 2

\* ---- literals of the program ----
WIDTH == 270
HEIGHT == 28
FontSize == 16
FontFace == "Courier"
CursorX == 3
CursorY == 20
White == <<1, 1, 1>>
SleepSeconds == 1
OutputPath == "/tmp/custom-clock.png"

\* a path the program never names; the file system has more than one path
OtherPath == "/tmp/custom-clock.png.tmp"
Paths == {OutputPath, OtherPath}

VARIABLES
  pc,               \* the statement about to run
  iter,             \* number of the current iteration, from 1
  status,           \* "running", "faulted", "killed" or "exited"
  fault,            \* the statement that raised, "" while none has
  sfc,              \* the cairo image surface
  ctx,              \* the cairo drawing context
  time_str,         \* the formatted time
  output_filename,  \* the path variable
  fs,               \* the file system: path -> file
  written,          \* chunks of the PNG written by the write in progress
  out,              \* lines delivered to the consumer of standard output
  buf,              \* lines held in the standard-output buffer
  tty,              \* standard output is a terminal (line buffered)
  now,              \* the wall clock, in ticks
  wake,             \* the clock value at which the sleep ends
  seen,             \* what the external reader last read at OutputPath
  writes,           \* number of completed write_to_png calls
  images,           \* the surface content of each completed write, in order
  hist              \* completed statements, as <<iteration, statement>>

progVars == <<pc, iter, sfc, ctx, time_str, output_filename, fs, written,
              out, buf, wake, writes, images, hist>>
vars == <<pc, iter, status, fault, sfc, ctx, time_str, output_filename, fs,
          written, out, buf, tty, now, wake, seen, writes, images, hist>>

\* ---- pure helpers ----
Digit == <<"0", "1", "2", "3", "4", "5", "6", "7", "8", "9">>

RECURSIVE Dec(_)
Dec(n) == IF n < 10 THEN <<Digit[n + 1]>>
          ELSE Dec(n \div 10) \o <<Digit[(n % 10) + 1]>>

\* "%s" % datetime: seconds, then the fraction unless it is zero
Str(t) ==
  LET sec  == t \div TicksPerSec
      frac == t % TicksPerSec
  IN  IF frac = 0 THEN Dec(sec) ELSE Dec(sec) \o <<".">> \o Dec(frac)

NoFile == [exists |-> FALSE, ink |-> <<>>, chunks |-> 0]
\* a complete image left at the path by an earlier run of the script
OldFile ==
  [exists |-> TRUE, chunks |-> PngChunks,
   ink |-> <<[text |-> <<"old">>, at |-> <<CursorX, CursorY>>, rgb |-> White,
              size |-> FontSize, face |-> FontFace]>>]
NoSurface == [width |-> 0, height |-> 0, ink |-> <<>>]
NoContext == [size |-> 0, face |-> "", at |-> <<>>, rgb |-> <<>>]

\* variant: the surface of the previous iteration is drawn on again
ReusedSurface(w, h) == [width |-> w, height |-> h, ink |-> sfc.ink]
\* cairo.ImageSurface(ARGB32, w, h): a new, fully transparent surface
ImageSurface(w, h) == [width |-> w, height |-> h, ink |-> <<>>]

\* cairo.Context(sfc): size 10, default face, no current point, black
Context == [size |-> 10, face |-> "", at |-> <<>>, rgb |-> <<0, 0, 0>>]

\* ctx.show_text(s): the glyphs of s, drawn on the surface with the context
ShowText(s, c, txt) ==
  [s EXCEPT !.ink = Append(@, [text |-> txt, at |-> c.at, rgb |-> c.rgb,
                               size |-> c.size, face |-> c.face])]

Complete(f) == f.exists /\ f.chunks = PngChunks

\* fopen(path, "wb"): the file exists and is empty
OpenTruncate(f) == [exists |-> TRUE, ink |-> <<>>, chunks |-> 0]
\* one more chunk of the PNG of surface s
WriteChunk(f, s) == [exists |-> TRUE, ink |-> s.ink, chunks |-> f.chunks + 1]

\* variant: the PNG goes to a side file, never to the fixed path
WriteTargetTemp == OtherPath
\* the file write_to_png opens
WriteTarget == output_filename

\* variant: the flush leaves the buffer as it is
NotFlushed(o, b) == [out |-> o, buf |-> b]
\* sys.stdout.flush()
Flushed(o, b) == [out |-> o \o b, buf |-> <<>>]

\* print(x): one line; a terminal is line buffered, anything else is not
Printed(o, b, line) ==
  IF tty THEN [out |-> o \o b \o <<line>>, buf |-> <<>>]
         ELSE [out |-> o, buf |-> Append(b, line)]

\* variant: the sleep returns at once
NoSleep(t) == t
\* time.sleep(1) returns once a second has passed
WakeTime(t) == t + SleepSeconds * TicksPerSec

\* variant: a loop that ends after its first iteration
LoopCondOnce == iter < 1
\* while True
LoopCond == TRUE

\* variant: the exception is caught and the process runs on
Swallowed == "running"
\* no try/except: an exception ends the process
Unhandled == "faulted"

Order == <<"alloc", "context", "font_size", "font_face", "move_to",
           "set_source", "now", "show_text", "fill", "filename",
           "write_open", "write_data", "write_close", "print_path",
           "print_time", "flush", "sleep", "sleeping">>

\* variants of the order: time read first; prints swapped; prints before
\* the write; no flush
SpecOrder == <<"now", "alloc", "context", "font_face", "font_size", "move_to",
               "set_source", "show_text", "fill", "filename",
               "write_open", "write_data", "write_close", "print_path",
               "print_time", "flush", "sleep", "sleeping">>
PrintSwappedOrder == <<"alloc", "context", "font_size", "font_face", "move_to",
           "set_source", "now", "show_text", "fill", "filename",
           "write_open", "write_data", "write_close", "print_time",
           "print_path", "flush", "sleep", "sleeping">>
PrintFirstOrder == <<"alloc", "context", "font_size", "font_face", "move_to",
           "set_source", "now", "show_text", "fill", "filename",
           "print_path", "print_time", "write_open", "write_data",
           "write_close", "flush", "sleep", "sleeping">>
SkipFlushOrder == <<"alloc", "context", "font_size", "font_face", "move_to",
           "set_source", "now", "show_text", "fill", "filename",
           "write_open", "write_data", "write_close", "print_path",
           "print_time", "sleep", "sleeping">>

Pos(seq, p) == CHOOSE i \in 1..Len(seq) : seq[i] = p
After(seq, p) == IF Pos(seq, p) = Len(seq) THEN seq[1] ELSE seq[Pos(seq, p) + 1]

SuccSpecOrder(p) == After(SpecOrder, p)
SuccPrintSwapped(p) == After(PrintSwappedOrder, p)
SuccPrintFirst(p) == After(PrintFirstOrder, p)
SuccSkipFlush(p) == After(SkipFlushOrder, p)
\* the statement that follows p in the loop body
Succ(p) == After(Order, p)

\* the first statement of the loop body: the one the last wraps around to
LoopHead == Succ("sleeping")

Steps == {Order[i] : i \in 1..Len(Order)}

\* ---- the program ----
Init ==
  /\ pc = LoopHead
  /\ iter = 1
  /\ status = "running"
  /\ fault = ""
  /\ sfc = NoSurface
  /\ ctx = NoContext
  /\ time_str = <<>>
  /\ output_filename = ""
  /\ \E f \in {NoFile, OldFile} :
       fs = [p \in Paths |-> IF p = OutputPath THEN f ELSE NoFile]
  /\ written = 0
  /\ out = <<>>
  /\ buf = <<>>
  /\ tty \in BOOLEAN
  /\ now \in 0..1
  /\ wake = 0
  /\ seen = NoFile
  /\ writes = 0
  /\ images = <<>>
  /\ hist = <<>>

\* a statement of the loop body completes
Done(p) ==
  /\ pc' = Succ(p)
  /\ hist' = Append(hist, <<iter, p>>)

At(p) == status = "running" /\ pc = p

Env == <<status, fault, tty, now, seen>>

Alloc ==
  /\ At("alloc")
  /\ sfc' = ImageSurface(WIDTH, HEIGHT)
  /\ Done("alloc")
  /\ UNCHANGED <<iter, ctx, time_str, output_filename, fs, written, out, buf,
                 wake, writes, images, Env>>

NewContext ==
  /\ At("context")
  /\ ctx' = Context
  /\ Done("context")
  /\ UNCHANGED <<iter, sfc, time_str, output_filename, fs, written, out, buf,
                 wake, writes, images, Env>>

SetFontSize ==
  /\ At("font_size")
  /\ ctx' = [ctx EXCEPT !.size = FontSize]
  /\ Done("font_size")
  /\ UNCHANGED <<iter, sfc, time_str, output_filename, fs, written, out, buf,
                 wake, writes, images, Env>>

SelectFontFace ==
  /\ At("font_face")
  /\ ctx' = [ctx EXCEPT !.face = FontFace]
  /\ Done("font_face")
  /\ UNCHANGED <<iter, sfc, time_str, output_filename, fs, written, out, buf,
                 wake, writes, images, Env>>

MoveTo ==
  /\ At("move_to")
  /\ ctx' = [ctx EXCEPT !.at = <<CursorX, CursorY>>]
  /\ Done("move_to")
  /\ UNCHANGED <<iter, sfc, time_str, output_filename, fs, written, out, buf,
                 wake, writes, images, Env>>

SetSourceRgb ==
  /\ At("set_source")
  /\ ctx' = [ctx EXCEPT !.rgb = White]
  /\ Done("set_source")
  /\ UNCHANGED <<iter, sfc, time_str, output_filename, fs, written, out, buf,
                 wake, writes, images, Env>>

Now ==
  /\ At("now")
  /\ time_str' = Str(now)
  /\ Done("now")
  /\ UNCHANGED <<iter, sfc, ctx, output_filename, fs, written, out, buf,
                 wake, writes, images, Env>>

DrawText ==
  /\ At("show_text")
  /\ sfc' = ShowText(sfc, ctx, time_str)
  /\ Done("show_text")
  /\ UNCHANGED <<iter, ctx, time_str, output_filename, fs, written, out, buf,
                 wake, writes, images, Env>>

\* ctx.fill(): show_text leaves no path, so nothing is filled
Fill ==
  /\ At("fill")
  /\ Done("fill")
  /\ UNCHANGED <<iter, sfc, ctx, time_str, output_filename, fs, written, out,
                 buf, wake, writes, images, Env>>

SetFilename ==
  /\ At("filename")
  /\ output_filename' = OutputPath
  /\ Done("filename")
  /\ UNCHANGED <<iter, sfc, ctx, time_str, fs, written, out, buf,
                 wake, writes, images, Env>>

\* write_to_png, first part: the file is opened for writing and truncated
WriteOpen ==
  /\ At("write_open")
  /\ fs' = [fs EXCEPT ![WriteTarget] = OpenTruncate(@)]
  /\ written' = 0
  /\ Done("write_open")
  /\ UNCHANGED <<iter, sfc, ctx, time_str, output_filename, out, buf,
                 wake, writes, images, Env>>

\* write_to_png, middle part: the PNG is written a chunk at a time
WriteData ==
  /\ At("write_data")
  /\ fs' = [fs EXCEPT ![WriteTarget] = WriteChunk(@, sfc)]
  /\ written' = written + 1
  /\ IF written + 1 = PngChunks
       THEN Done("write_data")
       ELSE UNCHANGED <<pc, hist>>
  /\ UNCHANGED <<iter, sfc, ctx, time_str, output_filename, out, buf,
                 wake, writes, images, Env>>

\* write_to_png, last part: the file is closed and the call returns
WriteClose ==
  /\ At("write_close")
  /\ writes' = writes + 1
  /\ images' = Append(images, sfc.ink)
  /\ Done("write_close")
  /\ UNCHANGED <<iter, sfc, ctx, time_str, output_filename, fs, written, out,
                 buf, wake, Env>>

PrintPath ==
  /\ At("print_path")
  /\ out' = Printed(out, buf, <<output_filename>>).out
  /\ buf' = Printed(out, buf, <<output_filename>>).buf
  /\ Done("print_path")
  /\ UNCHANGED <<iter, sfc, ctx, time_str, output_filename, fs, written,
                 wake, writes, images, Env>>

PrintTime ==
  /\ At("print_time")
  /\ out' = Printed(out, buf, time_str).out
  /\ buf' = Printed(out, buf, time_str).buf
  /\ Done("print_time")
  /\ UNCHANGED <<iter, sfc, ctx, time_str, output_filename, fs, written,
                 wake, writes, images, Env>>

Flush ==
  /\ At("flush")
  /\ out' = Flushed(out, buf).out
  /\ buf' = Flushed(out, buf).buf
  /\ Done("flush")
  /\ UNCHANGED <<iter, sfc, ctx, time_str, output_filename, fs, written,
                 wake, writes, images, Env>>

\* time.sleep(1) is entered: the process is suspended until wake
SleepStart ==
  /\ At("sleep")
  /\ wake' = WakeTime(now)
  /\ Done("sleep")
  /\ UNCHANGED <<iter, sfc, ctx, time_str, output_filename, fs, written, out,
                 buf, writes, images, Env>>

\* time.sleep(1) returns and the loop condition is evaluated
SleepDone ==
  /\ At("sleeping")
  /\ now >= wake
  /\ iter < MaxIter
  /\ hist' = Append(hist, <<iter, "sleeping">>)
  /\ IF LoopCond
       THEN /\ pc' = LoopHead
            /\ iter' = iter + 1
            /\ status' = status
       ELSE /\ pc' = pc
            /\ iter' = iter
            /\ status' = "exited"
  /\ UNCHANGED <<fault, sfc, ctx, time_str, output_filename, fs, written, out,
                 buf, tty, now, wake, seen, writes, images>>

Step ==
  \/ Alloc \/ NewContext \/ SetFontSize \/ SelectFontFace \/ MoveTo
  \/ SetSourceRgb \/ Now \/ DrawText \/ Fill \/ SetFilename
  \/ WriteOpen \/ WriteData \/ WriteClose
  \/ PrintPath \/ PrintTime \/ Flush \/ SleepStart \/ SleepDone

\* ---- the environment ----

\* the statement about to run raises instead of completing
Fault ==
  /\ status = "running"
  /\ fault = ""
  /\ pc # "sleeping"
  /\ fault' = pc
  /\ status' = Unhandled
  /\ UNCHANGED <<progVars, tty, now, seen>>

\* the operator kills the process
Interrupt ==
  /\ status = "running"
  /\ status' = "killed"
  /\ UNCHANGED <<progVars, fault, tty, now, seen>>

\* the wall clock advances; it is taken not to be set back while the script
\* runs
Tick ==
  /\ now < MaxTime
  /\ now' = now + 1
  /\ UNCHANGED <<progVars, status, fault, tty, seen>>

\* another process reads the file at the fixed path
Read ==
  /\ seen # fs[OutputPath]
  /\ seen' = fs[OutputPath]
  /\ UNCHANGED <<progVars, status, fault, tty, now>>

Next ==
  \/ Alloc \/ NewContext \/ SetFontSize \/ SelectFontFace \/ MoveTo
  \/ SetSourceRgb \/ Now \/ DrawText \/ Fill \/ SetFilename
  \/ WriteOpen \/ WriteData \/ WriteClose
  \/ PrintPath \/ PrintTime \/ Flush \/ SleepStart \/ SleepDone
  \/ Fault \/ Interrupt \/ Tick \/ Read

Spec == Init /\ [][Next]_vars

\* the process is scheduled and the clock runs
LiveSpec == Spec /\ WF_vars(Step) /\ WF_vars(Tick)

TypeOK ==
  /\ pc \in Steps
  /\ iter \in 1..MaxIter
  /\ status \in {"running", "faulted", "killed", "exited"}
  /\ now \in 0..MaxTime
  /\ written \in 0..PngChunks

\* ---- properties ----
stream == out \o buf
IsPathLine(l) == l = <<OutputPath>>
PathLines == Cardinality({i \in 1..Len(stream) : IsPathLine(stream[i])})
TimeLines == Cardinality({i \in 1..Len(stream) : ~IsPathLine(stream[i])})

\* the glyphs show_text draws for the text txt with the script's settings
Glyphs(txt) == [text |-> txt, at |-> <<CursorX, CursorY>>, rgb |-> White,
                size |-> FontSize, face |-> FontFace]

\* lines the current iteration has printed so far
PrintedInIter ==
  CASE pc = "print_time" -> 1
    [] pc \in {"flush", "sleep", "sleeping"} -> 2
    [] OTHER -> 0

\* statement a of iteration n completed before statement b of iteration m did
Before(n, a, m, b) ==
  \A i \in 1..Len(hist) :
    hist[i] = <<m, b>> => \E j \in 1..(i - 1) : hist[j] = <<n, a>>

Happened(n, a) == \E i \in 1..Len(hist) : hist[i] = <<n, a>>

\* C1: standard output is path, time, path, time, ...: every odd line is the
\* path line, every even line is a time line directly after the path line of
\* its iteration, and each iteration appends exactly two lines, the second
\* being the time string of that iteration.
C1_Alternation ==
  /\ \A i \in 1..Len(stream) :
       IF i % 2 = 1
         THEN IsPathLine(stream[i])
         ELSE ~IsPathLine(stream[i]) /\ IsPathLine(stream[i - 1])
  /\ Len(stream) = 2 * (iter - 1) + PrintedInIter
  /\ PrintedInIter = 2 => stream[Len(stream)] = time_str

C1_Witness == Len(stream) = 4 /\ pc = "flush"

\* C2: once the flush has run (the sleep is about to begin or the process is
\* suspended in it) the buffer is empty and every line printed so far, two
\* per iteration, has been delivered.
C2_FlushedBeforeSleep ==
  pc \in {"sleep", "sleeping"} => buf = <<>> /\ Len(out) = 2 * iter

C2_Witness == pc = "sleeping" /\ ~tty /\ Len(out) = 4

\* C3: the only file ever written and the only path ever printed is
\* /tmp/custom-clock.png, and once an iteration's write has completed the
\* file holds exactly the glyphs of that iteration's time string.
C3_OnePathFreshCanvas ==
  /\ \A p \in Paths : fs[p].exists => p = OutputPath
  /\ output_filename \in {"", OutputPath}
  /\ \A i \in 1..Len(stream) : i % 2 = 1 => stream[i] = <<OutputPath>>
  /\ \A k \in 1..Len(images) : Len(images[k]) = 1
  /\ (writes = iter /\ pc # LoopHead)
       => /\ Complete(fs[OutputPath])
          /\ fs[OutputPath].ink = <<Glyphs(time_str)>>

C3_Witness ==
  /\ writes = 2
  /\ pc = "print_path"
  /\ images[1] # images[2]
  /\ fs[OutputPath].ink = images[2]

\* C4: the images of two consecutive completed writes differ, because their
\* time strings differ, and the file exists once a write has completed.
C4_ContentDiffers ==
  /\ \A k \in 1..(Len(images) - 1) :
       /\ images[k] # images[k + 1]
       /\ images[k][Len(images[k])].text
            # images[k + 1][Len(images[k + 1])].text
  /\ writes >= 1 => fs[OutputPath].exists

C4_Witness ==
  /\ Len(images) >= 2
  /\ Complete(fs[OutputPath])
  /\ fs[OutputPath].ink = images[2]

\* C5: the process never exits on its own; leaving the sleep always starts
\* the next iteration, and a running process suspended in the sleep does
\* reach the next iteration unless it is interrupted.
C5_NoExit ==
  /\ [](status # "exited")
  /\ [][(pc = "sleeping" /\ pc' # "sleeping")
          => (pc' = LoopHead /\ iter' = iter + 1 /\ status' = "running")]_vars
  /\ \A n \in 1..(MaxIter - 1) :
       (pc = "sleeping" /\ iter = n /\ status = "running" /\ wake <= MaxTime)
         ~> (iter = n + 1 \/ status = "killed")

C5_Witness == iter = MaxIter /\ pc = "sleeping" /\ status = "running"

\* C6: a statement that raises ends the process at that statement: the
\* process is faulted with pc at the failing statement, and from then on no
\* program variable (pc, iteration, surface, files, path, output) changes.
C6_FaultTerminates ==
  [][/\ fault' # "" => (status' = "faulted" /\ pc' = fault')
     /\ fault # "" => UNCHANGED progVars]_vars

C6_Witness ==
  /\ fault = "write_data"
  /\ iter = 2
  /\ fs[OutputPath].exists
  /\ ~Complete(fs[OutputPath])

\* C7: while write_to_png is writing, the file at the fixed path is the
\* partly written file itself: it is neither the complete previous image nor
\* the complete current image, and the reader reads whatever is there.
C7_WriteInPlace ==
  /\ pc = "write_data" =>
       /\ fs[OutputPath].exists
       /\ fs[OutputPath].chunks = written
       /\ ~Complete(fs[OutputPath])
       /\ fs[OutputPath] # OldFile
       /\ \A k \in 1..Len(images) :
            fs[OutputPath] # [exists |-> TRUE, ink |-> images[k],
                              chunks |-> PngChunks]
       /\ fs[OutputPath] # [exists |-> TRUE, ink |-> sfc.ink,
                            chunks |-> PngChunks]
  /\ (pc = "write_close" /\ writes = iter - 1) => Complete(fs[OutputPath])

C7_Witness ==
  /\ pc = "write_data"
  /\ writes >= 1
  /\ seen = fs[OutputPath]
  /\ seen.exists
  /\ seen.chunks >= 1
  /\ ~Complete(seen)

\* C8 as stated: in each iteration the time is obtained before the surface
\* is allocated and before the font, the cursor and the colour are set.
C8_TimeFirst ==
  \A n \in 1..MaxIter :
    /\ Before(n, "now", n, "alloc")
    /\ Before(n, "now", n, "font_size")
    /\ Before(n, "now", n, "font_face")
    /\ Before(n, "now", n, "move_to")
    /\ Before(n, "now", n, "set_source")

\* C8 amended: in each iteration the time is obtained after the surface is
\* allocated and the context, font size, font face, cursor and colour are
\* set, and before the text is drawn; drawing precedes the write, the write
\* the two prints, the prints the flush and the flush the sleep.
C8_TimeAfterSetup ==
  \A n \in 1..MaxIter :
    /\ Before(n, "alloc", n, "context")
    /\ Before(n, "context", n, "font_size")
    /\ Before(n, "font_size", n, "font_face")
    /\ Before(n, "font_face", n, "move_to")
    /\ Before(n, "move_to", n, "set_source")
    /\ Before(n, "set_source", n, "now")
    /\ Before(n, "now", n, "show_text")
    /\ Before(n, "show_text", n, "fill")
    /\ Before(n, "fill", n, "write_open")
    /\ Before(n, "write_close", n, "print_path")
    /\ Before(n, "print_path", n, "print_time")
    /\ Before(n, "print_time", n, "flush")
    /\ Before(n, "flush", n, "sleep")

C8_Witness == Happened(2, "now") /\ ~Happened(2, "show_text")

\* C9: iterations do not interleave: completed statements are ordered by
\* iteration, and before iteration n+1 allocates its surface the write, both
\* prints and the flush of iteration n have completed and its sleep elapsed.
C9_Sequential ==
  /\ \A i, j \in 1..Len(hist) : i < j => hist[i][1] <= hist[j][1]
  /\ \A i, j \in 1..Len(hist) : i < j => hist[i] # hist[j]
  /\ \A n \in 1..(MaxIter - 1) :
       /\ Before(n, "write_close", n + 1, "alloc")
       /\ Before(n, "print_path", n + 1, "alloc")
       /\ Before(n, "print_time", n + 1, "alloc")
       /\ Before(n, "flush", n + 1, "alloc")
       /\ Before(n, "sleeping", n + 1, "alloc")
       /\ Before(n + 1, "alloc", n + 1, "show_text")
  /\ (iter > 1 /\ pc = LoopHead) =>
       /\ now >= wake
       /\ buf = <<>>
       /\ Len(out) = 2 * (iter - 1)
       /\ writes = iter - 1
       /\ Complete(fs[OutputPath])

C9_Witness == Happened(2, "alloc") /\ ~tty /\ pc = "context"

\* C10 as stated: at every moment there are at most as many path lines as
\* completed writes, the last printed time line is the text of the last
\* completely written image, and an iteration whose write fails prints
\* nothing.
C10_LastTimestampIsLastImage ==
  /\ PathLines <= writes
  /\ TimeLines > 0 => stream[Len(stream)] = images[Len(images)][1].text
  /\ fault \in {"write_open", "write_data", "write_close"}
       => Len(stream) = 2 * (iter - 1)

\* C10 amended: at every moment there are at most as many path lines as
\* completed writes, the k-th printed time line is the text of the k-th
\* completely written image (so the last printed time line is the text of
\* the last completely written image whenever as many time lines as writes
\* exist), and an iteration whose write fails prints nothing.
C10_PrintAfterWrite ==
  /\ PathLines <= writes
  /\ TimeLines <= writes
  /\ \A k \in 1..TimeLines : stream[2 * k] = images[k][1].text
  /\ fault \in {"write_open", "write_data", "write_close"}
       => Len(stream) = 2 * (iter - 1)

C10_Witness == TimeLines = 2 /\ writes = 2 /\ pc = "sleep"

C10_FaultWitness == fault = "write_close" /\ iter = 2 /\ Len(stream) = 2
====
